---- MODULE Spec2Model ----
(***************************************************************************)
(* TaskManager (src/taskmanager.py): a file-backed personal task tracker.  *)
(* The model follows the program as it runs: TaskManager() loads and       *)
(* deduplicates tasks.json, then main() loops cleanup -> menu -> one       *)
(* operation.  Time is counted in minutes.  Strings that the program       *)
(* strips and lower-cases are sequences of one-character strings.          *)
(***************************************************************************)
EXTENDS Integers, Sequences, FiniteSets, TLC

VARIABLES now, file, tasks, pc, out, cycle_now

vars == <<now, file, tasks, pc, out, cycle_now>>

(* ------------------------------ bounds --------------------------------- *)
MaxTime == 7
MaxTasks == 2
MaxBullets == 2
MaxStore == 3

(* -------------------------- program constants -------------------------- *)
DeleteGrace == 5
NoAttr == -1

NOT_STARTED == "not started"
IN_PROGRESS == "in progress..."
COMPLETED == "completed"
EXPIRED == "expired"

(* ------------------------------ strings -------------------------------- *)
LowerChar(c) == CASE c = "A" -> "a"
                  [] c = "B" -> "b"
                  [] c = "D" -> "d"
                  [] c = "U" -> "u"
                  [] OTHER -> c

Lower(s) == [i \in 1..Len(s) |-> LowerChar(s[i])]

RECURSIVE LStrip(_)
LStrip(s) == IF s # <<>> /\ Head(s) = " " THEN LStrip(Tail(s)) ELSE s

RECURSIVE RStrip(_)
RStrip(s) == IF s # <<>> /\ s[Len(s)] = " "
             THEN RStrip(SubSeq(s, 1, Len(s) - 1)) ELSE s

Strip(s) == RStrip(LStrip(s))

Contains(s, k) == \E i \in 0..(Len(s) - Len(k)) : SubSeq(s, i + 1, i + Len(k)) = k

(* datetime.isoformat / datetime.fromisoformat *)
IsoFormat(t) == [iso |-> t]
FromIsoFormat(s) == s.iso

(* datetime.strptime(text, fmt): the text carries the separator the user    *)
(* typed between month and day; fmtSep is the one the format string wants.  *)
StrptimeOk(text, fmtSep) == text.sep = fmtSep
Strptime(text, fmtSep) == text.val

(* dict.get(key, default) *)
Get(d, k, def) == IF k \in DOMAIN d THEN d[k] ELSE def

(* ------------------------------- Task ---------------------------------- *)
Task(id, title, description, expiry_date, priority, bullets, bref) ==
    [id |-> id, title |-> title, description |-> description,
     expiry_date |-> expiry_date, priority |-> priority, bullets |-> bullets,
     status |-> NOT_STARTED, created_date |-> NoAttr, expiry_update |-> NoAttr,
     bref |-> bref]

(* mutant: the comparison is the wrong way round *)
is_expired_Inverted(t, clock) == clock < t.expiry_date

is_expired(t, clock) == clock > t.expiry_date

(* mutant: deletable from the very minute the grace period ends *)
is_deletable_AtBoundary(t, clock) == clock >= t.expiry_date + DeleteGrace

is_deletable(t, clock) == clock > t.expiry_date + DeleteGrace

all_done(bullets) == \A i \in 1..Len(bullets) : bullets[i].done

(* any(["done"] for b in self.bullets): each element is a non-empty list *)
any_done(bullets) == \E i \in 1..Len(bullets) : <<"done">> # <<>>

(* mutant: checklist completion is looked at before expiry *)
StatusOf_CompletionFirst(t, clock) ==
    CASE all_done(t.bullets) -> COMPLETED
      [] is_expired(t, clock) -> EXPIRED
      [] any_done(t.bullets) -> IN_PROGRESS
      [] OTHER -> NOT_STARTED

StatusOf(t, clock) ==
    CASE is_expired(t, clock) -> EXPIRED
      [] ~is_expired(t, clock) /\ all_done(t.bullets) -> COMPLETED
      [] ~is_expired(t, clock) /\ ~all_done(t.bullets) /\ any_done(t.bullets) -> IN_PROGRESS
      [] OTHER -> NOT_STARTED

update_status(t, clock) == [t EXCEPT !.status = StatusOf(t, clock)]

lock_check(t) == t.status \in {COMPLETED, EXPIRED}

(* --------------------------- TaskManager ------------------------------- *)
Untitleed == <<"U", "n", "t", "i", "t", "l", "e", "e", "d">>
NoDescription == <<"n", "o", " ", "d", "e", "s", "c", "r", "i", "p", "t", "i", "o", "n">>

Max(S) == CHOOSE m \in S : \A x \in S : x <= m

(* Object identity of the bullets lists: bref names the list object a task *)
(* holds.  Renumber keeps the names canonical (first occurrence order).    *)
FirstWithRef(ts, r) == CHOOSE i \in 1..Len(ts) : ts[i].bref = r /\ \A j \in 1..(i - 1) : ts[j].bref # r

Renumber(ts) ==
    [i \in 1..Len(ts) |->
        [ts[i] EXCEPT !.bref =
            Cardinality({ts[j].bref : j \in 1..FirstWithRef(ts, ts[i].bref)})]]

to_dict(ts, clock) ==
    [i \in 1..Len(ts) |->
        [id |-> ts[i].id,
         title |-> ts[i].title,
         description |-> ts[i].description,
         created_date |-> IsoFormat(IF ts[i].created_date = NoAttr
                                    THEN clock ELSE ts[i].created_date),
         expiry_date |-> IsoFormat(ts[i].expiry_date),
         priority |-> ts[i].priority,
         status |-> ts[i].status,
         bullets |-> ts[i].bullets]]

TaskFromDict(d, ref, clock) ==
    [Task(Get(d, "id", 0),
          Get(d, "title", Untitleed),
          Get(d, "description", NoDescription),
          FromIsoFormat(Get(d, "expiry_date", IsoFormat(clock))),
          Get(d, "priority", "low"),
          Get(d, "bullets", <<>>),
          ref)
     EXCEPT !.created_date = FromIsoFormat(Get(d, "created_date", IsoFormat(clock))),
            !.status = Get(d, "status", NOT_STARTED)]

RECURSIVE Repeat(_, _)
Repeat(s, n) == IF n = 0 THEN <<>> ELSE s \o Repeat(s, n - 1)

(* for d in data: for d in data: ... tasks.append(task) *)
from_dict(data, clock) ==
    Repeat([i \in 1..Len(data) |-> TaskFromDict(data[i], i, clock)], Len(data))

load(f, clock) == IF f = <<>> THEN <<>> ELSE from_dict(f, clock)

(* mutant: the key is built from the raw, unstripped text *)
task_hash_NoStrip(t) == <<Lower(t.title), Lower(t.description), t.expiry_date>>

(* mutant: the key is the title alone *)
task_hash_TitleOnly(t) == <<Lower(Strip(t.title))>>

task_hash(t) == <<Lower(Strip(t.title)), Lower(Strip(t.description)), t.expiry_date>>

RECURSIVE DedupLoop(_, _, _)
DedupLoop(ts, seen, unique_tasks) ==
    IF ts = <<>> THEN unique_tasks
    ELSE IF task_hash(Head(ts)) \notin seen
         THEN DedupLoop(Tail(ts), seen \cup {task_hash(Head(ts))},
                        Append(unique_tasks, Head(ts)))
         ELSE DedupLoop(Tail(ts), seen, unique_tasks)

remove_duplicates(ts) == DedupLoop(ts, {}, <<>>)

(* mutant: the next id is taken from the number of tasks *)
get_next_id_Count(ts) == Len(ts) + 1

get_next_id(ts) ==
    IF ts = <<>> THEN 1 ELSE Max({ts[i].id : i \in 1..Len(ts)}) + 1

(* index of the first task with the given id, 0 when there is none *)
FindFirst(ts, task_id) ==
    IF \E i \in 1..Len(ts) : ts[i].id = task_id
    THEN CHOOSE i \in 1..Len(ts) : ts[i].id = task_id /\ \A j \in 1..(i - 1) : ts[j].id # task_id
    ELSE 0

RemoveAt(ts, i) == SubSeq(ts, 1, i - 1) \o SubSeq(ts, i + 1, Len(ts))

(* ------------------------------ inputs --------------------------------- *)
Titles == {<<"a">>, <<"A", " ">>}
Descs == {<<"d">>}
Priorities == {"low"}
ExpiryValues == {1}
NewTitles == {<<"b">>}
NewExpiryValues == {2}
(* what the user types at an expiry prompt: YYYY-MM-DD or YYYY-MM_DD *)
ExpiryTexts(values) == [sep : {"-", "_"}, val : values]
(* what the user types at an id prompt: a number or something else *)
IdTexts == [num : {TRUE}, val : 1..(MaxTasks + 1)] \cup {[num |-> FALSE, val |-> 0]}
BulletTexts == <<"x", "y", "z", "w">>
Keywords == {<<"a">>, <<"d">>, <<"q">>}

Bullet(text, done) == [text |-> text, done |-> done]

Doc(id, title, expiry, status, bullets) ==
    [id |-> id, title |-> title, description |-> <<"d">>,
     created_date |-> IsoFormat(0), expiry_date |-> IsoFormat(expiry),
     priority |-> "low", status |-> status, bullets |-> bullets]

(* tasks.json as found at the first start: absent or empty, or a document  *)
(* written earlier (possibly by hand or by an older version).              *)
InitialDocs ==
    { <<>>,
      << Doc(1, <<"a">>, 2, NOT_STARTED, <<>>) >>,
      << Doc(1, <<"b">>, 2, NOT_STARTED,
             <<Bullet("x", TRUE), Bullet("y", FALSE), Bullet("z", FALSE)>>) >>,
      << Doc(1, <<"a">>, 1, IN_PROGRESS, <<Bullet("x", TRUE), Bullet("y", TRUE)>>),
         Doc(2, <<"b">>, 2, NOT_STARTED, <<Bullet("x", FALSE)>>) >>,
      << Doc(1, <<"a">>, 2, NOT_STARTED, <<Bullet("x", FALSE)>>),
         Doc(2, <<"A", " ">>, 2, NOT_STARTED, <<Bullet("y", TRUE)>>),
         Doc(1, <<"b">>, 1, COMPLETED, <<>>) >>,
      << [title |-> <<"b">>] >> }

NoOut == [op |-> "none", res |-> "none"]

Init ==
    /\ now = 0
    /\ file \in InitialDocs
    /\ tasks = <<>>
    /\ pc = "start"
    /\ out = NoOut
    /\ cycle_now = 0

(* ------------------------------ actions -------------------------------- *)
(* time passes while the program waits for the user at the menu prompt;    *)
(* between an operation's return and the next cleanup no time is spent     *)
Tick ==
    /\ pc = "menu"
    /\ now < MaxTime
    /\ now' = now + 1
    /\ UNCHANGED <<file, tasks, pc, out, cycle_now>>

(* TaskManager.__init__: load, remove_duplicates, and `self.save` without   *)
(* a call, which writes nothing.                                            *)
Startup ==
    /\ pc = "start"
    /\ LET loaded == load(file, now)
           unique == remove_duplicates(loaded)
       IN /\ tasks' = Renumber(unique)
          /\ out' = [op |-> "startup", res |-> "loaded",
                     duplicates_count |-> Len(loaded) - Len(unique)]
    /\ pc' = "cleanup"
    /\ UNCHANGED <<now, file, cycle_now>>

(* mutant: the sweep drops every expired task, grace period or not *)
cleanup_tasks_Expired(ts, clock) == SelectSeq(ts, LAMBDA t : ~is_expired(t, clock))

cleanup_tasks(ts, clock) == SelectSeq(ts, LAMBDA t : ~is_deletable(t, clock))

Cleanup ==
    /\ pc = "cleanup"
    /\ tasks' = Renumber(cleanup_tasks(tasks, now))
    /\ file' = to_dict(tasks', now)
    /\ cycle_now' = now
    /\ pc' = "menu"
    /\ out' = [op |-> "cleanup", res |-> "saved",
               removed |-> Len(tasks) - Len(tasks')]
    /\ UNCHANGED now

(* the while loop of add_task: one Task per bullet typed, every one of     *)
(* them holding the same bullets list object                               *)
RECURSIVE AddLoop(_, _, _)
AddLoop(ts, n, proto) ==
    IF n = 0 THEN ts
    ELSE AddLoop(Append(ts, [proto EXCEPT !.id = get_next_id(ts)]), n - 1, proto)

add_task_result(ts, title, desc, priority, expiry, n) ==
    LET bullets == [i \in 1..n |-> Bullet(BulletTexts[i], FALSE)]
        fresh == Len(ts) + 1
    IN Renumber(AddLoop(ts, n, Task(0, title, desc, expiry, priority, bullets, fresh)))

(* `manager.save` at line 174 is not a call: nothing is written *)
AddTask ==
    /\ pc = "menu"
    /\ \E title \in Titles, desc \in Descs, priority \in Priorities,
          text \in ExpiryTexts(ExpiryValues), n \in 0..MaxBullets :
          /\ Len(tasks) + n <= MaxTasks
          /\ IF StrptimeOk(text, "-")
             THEN /\ tasks' = add_task_result(tasks, title, desc, priority,
                                              Strptime(text, "-"), n)
                  /\ pc' = "cleanup"
                  /\ out' = [op |-> "add", res |-> IF n = 0 THEN "none" ELSE "added",
                             n |-> n, next_id |-> get_next_id(tasks),
                             title |-> title, expiry |-> Strptime(text, "-")]
             ELSE /\ tasks' = tasks
                  /\ pc' = "crashed"
                  /\ out' = [op |-> "add", res |-> "ValueError"]
    /\ UNCHANGED <<now, file, cycle_now>>

(* the for loop of edit_task recomputes the status of every task up to and *)
(* including the first one with the id, or of all when there is none       *)
edit_scan(ts, task_id, clock) ==
    LET k == FindFirst(ts, task_id)
    IN [i \in 1..Len(ts) |->
           IF k = 0 \/ i <= k THEN update_status(ts[i], clock) ELSE ts[i]]

edit_fields(t, title, desc, text) ==
    IF StrptimeOk(text, "_")
    THEN [t EXCEPT !.title = title, !.description = desc,
                   !.expiry_update = Strptime(text, "_")]
    ELSE [t EXCEPT !.title = title, !.description = desc]

EditTask ==
    /\ pc = "menu"
    /\ \E idt \in IdTexts, title \in NewTitles, desc \in Descs,
          text \in ExpiryTexts(NewExpiryValues) :
          IF ~idt.num
          THEN /\ pc' = "crashed"
               /\ out' = [op |-> "edit", res |-> "ValueError"]
               /\ UNCHANGED <<tasks, file>>
          ELSE LET k == FindFirst(tasks, idt.val)
                   scanned == edit_scan(tasks, idt.val, now)
               IN IF k = 0
                  THEN /\ tasks' = scanned
                       /\ pc' = "cleanup"
                       /\ out' = [op |-> "edit", res |-> "not_found", id |-> idt.val]
                       /\ UNCHANGED file
                  ELSE IF lock_check(scanned[k])
                  THEN /\ tasks' = scanned
                       /\ pc' = "cleanup"
                       /\ out' = [op |-> "edit", res |-> "locked", id |-> idt.val]
                       /\ UNCHANGED file
                  ELSE /\ tasks' = [scanned EXCEPT ![k] = edit_fields(scanned[k], title, desc, text)]
                       /\ IF StrptimeOk(text, "_")
                          THEN /\ file' = to_dict(tasks', now)
                               /\ pc' = "cleanup"
                               /\ out' = [op |-> "edit", res |-> "updated", id |-> idt.val,
                                          title |-> title, description |-> desc,
                                          expiry |-> text.val]
                          ELSE /\ pc' = "crashed"
                               /\ out' = [op |-> "edit", res |-> "ValueError", id |-> idt.val,
                                          title |-> title, description |-> desc,
                                          expiry |-> text.val]
                               /\ UNCHANGED file
    /\ UNCHANGED <<now, cycle_now>>

(* complete_bullet: everything after the id prompt sits inside the         *)
(* `while True` loop, behind the `break` that a valid number takes.  A     *)
(* number leaves the loop and the function; anything else reaches the      *)
(* lookup with task_id unbound, which raises NameError.                    *)
CompleteBullet ==
    /\ pc = "menu"
    /\ \E idt \in IdTexts :
          IF idt.num
          THEN /\ pc' = "cleanup"
               /\ out' = [op |-> "complete", res |-> "none", id |-> idt.val]
          ELSE /\ pc' = "crashed"
               /\ out' = [op |-> "complete", res |-> "NameError"]
    /\ UNCHANGED <<now, file, tasks, cycle_now>>

Report(t) == [id |-> t.id, title |-> t.title, status |-> t.status]

search_matches(ts, keyword) ==
    SelectSeq(ts, LAMBDA t : Contains(Lower(t.title), keyword)
                             \/ Contains(Lower(t.description), keyword))

Search ==
    /\ pc = "menu"
    /\ \E kw \in Keywords :
          LET keyword == Lower(kw)
              found == search_matches(tasks, keyword)
          IN out' = [op |-> "search", res |-> IF found = <<>> THEN "no_match" ELSE "found",
                     shown |-> [i \in 1..Len(found) |-> Report(found[i])]]
    /\ pc' = "cleanup"
    /\ UNCHANGED <<now, file, tasks, cycle_now>>

ViewTasks ==
    /\ pc = "menu"
    /\ tasks' = [i \in 1..Len(tasks) |-> update_status(tasks[i], now)]
    /\ out' = [op |-> "view", res |-> IF tasks = <<>> THEN "no_tasks" ELSE "shown",
               shown |-> [i \in 1..Len(tasks) |-> Report(tasks'[i])]]
    /\ pc' = "cleanup"
    /\ UNCHANGED <<now, file, cycle_now>>

DeleteTask ==
    /\ pc = "menu"
    /\ IF tasks = <<>>
       THEN /\ pc' = "cleanup"
            /\ out' = [op |-> "delete", res |-> "no_tasks"]
            /\ UNCHANGED <<tasks, file>>
       ELSE \E idt \in IdTexts :
          IF ~idt.num
          THEN /\ pc' = "crashed"
               /\ out' = [op |-> "delete", res |-> "ValueError"]
               /\ UNCHANGED <<tasks, file>>
          ELSE LET i == FindFirst(tasks, idt.val)
               IN /\ pc' = "cleanup"
                  /\ IF i = 0
                     THEN /\ out' = [op |-> "delete", res |-> "not_found", id |-> idt.val]
                          /\ UNCHANGED <<tasks, file>>
                     ELSE IF is_deletable(tasks[i], now)
                     THEN /\ tasks' = Renumber(RemoveAt(tasks, i))
                          /\ file' = to_dict(tasks', now)
                          /\ out' = [op |-> "delete", res |-> "deleted", id |-> idt.val,
                                     expiry |-> tasks[i].expiry_date]
                     ELSE /\ out' = [op |-> "delete", res |-> "not_deletable", id |-> idt.val,
                                     expiry |-> tasks[i].expiry_date]
                          /\ UNCHANGED <<tasks, file>>
    /\ UNCHANGED <<now, cycle_now>>

Exit ==
    /\ pc = "menu"
    /\ pc' = "exited"
    /\ out' = [op |-> "exit", res |-> "none"]
    /\ UNCHANGED <<now, file, tasks, cycle_now>>

InvalidChoice ==
    /\ pc = "menu"
    /\ pc' = "cleanup"
    /\ out' = [op |-> "invalid", res |-> "none"]
    /\ UNCHANGED <<now, file, tasks, cycle_now>>

Next ==
    \/ Tick
    \/ Startup
    \/ Cleanup
    \/ AddTask
    \/ EditTask
    \/ CompleteBullet
    \/ Search
    \/ ViewTasks
    \/ DeleteTask
    \/ Exit
    \/ InvalidChoice

Spec == Init /\ [][Next]_vars

(* ===================== status engine: C1, C2, C3 ======================= *)
(* The tasks whose status the operation that has just returned recomputed: *)
(* all of them after view_tasks, those up to the first match after         *)
(* edit_task.  No time passes between the return and the next cleanup.     *)
JustRecomputed ==
    IF pc = "cleanup" /\ out.op = "view" THEN 1..Len(tasks)
    ELSE IF pc \in {"cleanup", "crashed"} /\ out.op = "edit" /\ "id" \in DOMAIN out
         THEN IF FindFirst(tasks, out.id) = 0 THEN 1..Len(tasks)
              ELSE 1..FindFirst(tasks, out.id)
         ELSE {}

DoneCount(bullets) == Cardinality({j \in 1..Len(bullets) : bullets[j].done})

(* C1: whenever the current time is strictly after a task's expiry time, a *)
(* status recomputation leaves the task expired, whatever its checklist.   *)
C1_ExpiryDominates ==
    \A i \in JustRecomputed :
        now > tasks[i].expiry_date => tasks[i].status = EXPIRED

(* C1 witness: a task past its expiry whose bullets are all done has just  *)
(* been recomputed (expiry dominates completion).                          *)
C1_Witness ==
    \E i \in JustRecomputed :
        /\ now > tasks[i].expiry_date
        /\ tasks[i].bullets # <<>>
        /\ DoneCount(tasks[i].bullets) = Len(tasks[i].bullets)
        /\ tasks[i].status = EXPIRED

(* C1, the other checklist states: empty, none done, some done *)
C1_WitnessEmpty ==
    \E i \in JustRecomputed :
        now > tasks[i].expiry_date /\ tasks[i].bullets = <<>> /\ tasks[i].status = EXPIRED

C1_WitnessNoneDone ==
    \E i \in JustRecomputed :
        /\ now > tasks[i].expiry_date /\ tasks[i].bullets # <<>>
        /\ DoneCount(tasks[i].bullets) = 0 /\ tasks[i].status = EXPIRED

C1_WitnessSomeDone ==
    \E i \in JustRecomputed :
        /\ now > tasks[i].expiry_date
        /\ DoneCount(tasks[i].bullets) \in 1..(Len(tasks[i].bullets) - 1)
        /\ tasks[i].status = EXPIRED

(* C2: after a status recomputation, a task with no bullets that has not   *)
(* expired is not completed.                                               *)
C2_EmptyNeverCompleted ==
    \A i \in JustRecomputed :
        (tasks[i].bullets = <<>> /\ now <= tasks[i].expiry_date)
            => tasks[i].status # COMPLETED

(* C3: after a status recomputation of an unexpired task with a non-empty  *)
(* checklist, in_progress means some but not all bullets are done, and a   *)
(* task with no bullet done is not_started.                                *)
C3_AnyDoneMeansOneDone ==
    \A i \in JustRecomputed :
        (tasks[i].bullets # <<>> /\ now <= tasks[i].expiry_date) =>
            /\ tasks[i].status = IN_PROGRESS =>
                  DoneCount(tasks[i].bullets) \in 1..(Len(tasks[i].bullets) - 1)
            /\ DoneCount(tasks[i].bullets) = 0 => tasks[i].status = NOT_STARTED

(* ======================= shared by C4 .. C10 =========================== *)
(* two task objects with the same field values (list identity aside) *)
SameTask(a, b) == [a EXCEPT !.bref = 0] = [b EXCEPT !.bref = 0]

SameContent(a, b) ==
    /\ a.title = b.title /\ a.description = b.description
    /\ a.expiry_date = b.expiry_date /\ a.bullets = b.bullets

DocFields == {"id", "title", "description", "created_date", "expiry_date",
              "priority", "status", "bullets"}

(* document f shows exactly the task list ts, entry by entry *)
Persisted(f, ts) ==
    /\ Len(f) = Len(ts)
    /\ \A j \in 1..Len(ts) :
          /\ DOMAIN f[j] = DocFields
          /\ f[j].id = ts[j].id
          /\ f[j].title = ts[j].title
          /\ f[j].description = ts[j].description
          /\ f[j].expiry_date = [iso |-> ts[j].expiry_date]
          /\ f[j].priority = ts[j].priority
          /\ f[j].status = ts[j].status
          /\ f[j].bullets = ts[j].bullets

(* the Status Engine rule as the specification words it *)
EngineStatus(t, clock) ==
    IF clock > t.expiry_date THEN EXPIRED
    ELSE IF t.bullets # <<>> /\ DoneCount(t.bullets) = Len(t.bullets) THEN COMPLETED
    ELSE IF DoneCount(t.bullets) >= 1 THEN IN_PROGRESS
    ELSE NOT_STARTED

UserOps == {"add", "edit", "complete", "search", "view", "delete", "exit", "invalid"}

(* a user operation `op` that named an id has just been taken *)
Took(op) == pc = "menu" /\ out'.op = op /\ "id" \in DOMAIN out'

(* ============================== C4 ===================================== *)
(* what C4 asks of one edit or bullet-completion step *)
C4_LockedStep ==
    (Took("edit") \/ Took("complete")) =>
        LET k == FindFirst(tasks, out'.id)
        IN (k # 0 /\ EngineStatus(tasks[k], now) \in {COMPLETED, EXPIRED}) =>
              /\ out'.res = "locked"
              /\ Len(tasks') = Len(tasks)
              /\ SameContent(tasks'[k], tasks[k])

(* C4: an edit or bullet-completion request against a task that is         *)
(* completed or expired under the Status Engine rule at that moment ends   *)
(* in the locked outcome and leaves title, description, expiry time and    *)
(* checklist as they were.                                                 *)
C4_LockedRequestsRefused == [][C4_LockedStep]_vars

(* ============================== C5 ===================================== *)
(* what C5 asks of one delete step *)
C5_DeleteStep ==
    /\ (pc = "menu" /\ out'.op = "delete" /\ out'.res = "no_tasks") =>
          (tasks = <<>> /\ tasks' = tasks /\ file' = file)
    /\ Took("delete") =>
        LET i == FindFirst(tasks, out'.id)
        IN IF i = 0
           THEN out'.res = "not_found" /\ tasks' = tasks /\ file' = file
           ELSE IF now > tasks[i].expiry_date + 5
           THEN /\ out'.res = "deleted"
                /\ Len(tasks') = Len(tasks) - 1
                /\ \A j \in 1..Len(tasks') :
                      SameTask(tasks'[j], IF j < i THEN tasks[j] ELSE tasks[j + 1])
                /\ Persisted(file', tasks')
           ELSE out'.res = "not_deletable" /\ tasks' = tasks /\ file' = file

(* C5: a delete request for the id of a task in the store (the first one   *)
(* carrying it) removes that task exactly when now > expiry + 5 minutes; a *)
(* refused delete and a delete of an unknown id change neither the store   *)
(* nor the document; a successful one removes that one task and writes the *)
(* remainder.                                                              *)
C5_DeleteIffPastGrace == [][C5_DeleteStep]_vars

(* C5 witness: a delete has just succeeded, one minute past the grace      *)
(* period, and left another task behind.                                   *)
C5_Witness ==
    /\ pc = "cleanup" /\ out.op = "delete" /\ out.res = "deleted"
    /\ now = out.expiry + 6
    /\ tasks # <<>>
    /\ Persisted(file, tasks)

(* C5: a delete refused at exactly expiry + 5 minutes, and one 2 minutes   *)
(* after expiry                                                            *)
C5_WitnessBoundary ==
    pc = "cleanup" /\ out.op = "delete" /\ out.res = "not_deletable" /\ now = out.expiry + 5

C5_WitnessEarly ==
    pc = "cleanup" /\ out.op = "delete" /\ out.res = "not_deletable" /\ now = out.expiry + 2

C5_WitnessUnknown ==
    pc = "cleanup" /\ out.op = "delete" /\ out.res = "not_found" /\ tasks # <<>>

(* ============================== C6 ===================================== *)
RECURSIVE NotYetDeletable(_, _)
NotYetDeletable(ts, clock) ==
    IF ts = <<>> THEN <<>>
    ELSE IF clock <= Head(ts).expiry_date + 5
         THEN <<Head(ts)>> \o NotYetDeletable(Tail(ts), clock)
         ELSE NotYetDeletable(Tail(ts), clock)

(* what C6 asks of one cleanup step and of one user operation *)
C6_CleanupStep ==
    /\ pc = "cleanup" =>
          /\ pc' = "menu"
          /\ Len(tasks') = Len(NotYetDeletable(tasks, now))
          /\ \A j \in 1..Len(tasks') : SameTask(tasks'[j], NotYetDeletable(tasks, now)[j])
          /\ Persisted(file', tasks')
    /\ (pc' # pc /\ out'.op \in UserOps) =>
          /\ pc = "menu"
          /\ \A j \in 1..Len(tasks) : cycle_now <= tasks[j].expiry_date + 5

(* C6: cleanup leaves the order-preserving subsequence of the tasks with   *)
(* now <= expiry + 5 minutes and writes it; every user operation is taken  *)
(* from the menu, where no task that was deletable when the cycle began is *)
(* in the store.                                                           *)
C6_CleanupRemovesDeletable == [][C6_CleanupStep]_vars

(* C6 witness: a cleanup has just removed a task and kept another *)
C6_Witness ==
    /\ pc = "menu" /\ out.op = "cleanup" /\ out.removed >= 1
    /\ tasks # <<>> /\ cycle_now = now

(* C4, the edit half alone (holds: edit_task recomputes before it checks) *)
C4_EditHalf ==
    [][Took("edit") =>
        LET k == FindFirst(tasks, out'.id)
        IN (k # 0 /\ EngineStatus(tasks[k], now) \in {COMPLETED, EXPIRED}) =>
              /\ out'.res = "locked"
              /\ Len(tasks') = Len(tasks)
              /\ SameContent(tasks'[k], tasks[k])]_vars

(* ============================== C7 ===================================== *)
(* C7: an edit request for an existing, unlocked task leaves the task with *)
(* the new title, description and expiry_date, and the document shows all  *)
(* three new values.                                                       *)
C7_EditReplacesAndPersists ==
    (out.op = "edit" /\ "expiry" \in DOMAIN out) =>
        LET k == FindFirst(tasks, out.id)
        IN /\ tasks[k].title = out.title
           /\ tasks[k].description = out.description
           /\ tasks[k].expiry_date = out.expiry
           /\ k <= Len(file)
           /\ DOMAIN file[k] = DocFields
           /\ file[k].title = out.title
           /\ file[k].description = out.description
           /\ file[k].expiry_date = [iso |-> out.expiry]

(* ============================== C8 ===================================== *)
(* what C8 asks of one bullet-completion step *)
C8_CompleteStep ==
    Took("complete") =>
        LET k == FindFirst(tasks, out'.id)
        IN (/\ k # 0
            /\ EngineStatus(tasks[k], now) \notin {COMPLETED, EXPIRED}
            /\ DoneCount(tasks[k].bullets) < Len(tasks[k].bullets)) =>
              /\ \E j \in 1..Len(tasks[k].bullets) :
                    ~tasks[k].bullets[j].done /\ tasks'[k].bullets[j].done
              /\ tasks'[k].status = EngineStatus(tasks'[k], now)
              /\ Persisted(file', tasks')

(* C8: a bullet-completion request naming an unlocked task that still has  *)
(* an undone bullet marks one of its undone bullets done, recomputes the   *)
(* status and writes the document.                                         *)
C8_CompleteMarksDone == [][C8_CompleteStep]_vars

(* ============================== C9 ===================================== *)
(* what C9 asks of one add step *)
C9_AddStep ==
    (pc = "menu" /\ out'.op = "add" /\ out'.res # "ValueError") =>
        /\ Len(tasks') = Len(tasks) + 1
        /\ \A j \in 1..Len(tasks) : SameTask(tasks'[j], tasks[j])
        /\ tasks'[Len(tasks')].id =
              (IF tasks = <<>> THEN 1 ELSE Max({tasks[j].id : j \in 1..Len(tasks)}) + 1)
        /\ tasks'[Len(tasks')].status = NOT_STARTED
        /\ Len(tasks'[Len(tasks')].bullets) = out'.n

(* C9: an add request appends exactly one task, whatever the number of     *)
(* checklist items: id = max id + 1 (1 on an empty store), status          *)
(* not_started, and the tasks already stored stay as they are.             *)
C9_AddAppendsOne == [][C9_AddStep]_vars

(* ============================== C10 ==================================== *)
(* what C10 asks of one step of a mutating operation *)
C10_SaveStep ==
    (/\ out'.op \in {"startup", "add", "edit", "complete", "delete", "cleanup"}
     /\ pc' \in {"cleanup", "menu"}
     /\ tasks' # tasks
     /\ out'.op = "startup" => out'.duplicates_count > 0) =>
        Persisted(file', tasks')

(* C10: when startup deduplication, add, edit, bullet completion, delete   *)
(* or cleanup has finished and changed the store, the document shows the   *)
(* in-memory task list.                                                    *)
C10_SavedAfterEveryMutation == [][C10_SaveStep]_vars

(* ============================== C11 ==================================== *)
(* C11: once the store has been loaded and deduplicated, and after every   *)
(* operation, no two tasks in the store have the same id.                  *)
C11_UniqueIds ==
    pc # "start" =>
        \A i, j \in 1..Len(tasks) : i # j => tasks[i].id # tasks[j].id

(* ============================== C13 ==================================== *)
(* dedup key of one object of the document, as the specification words it *)
DocKey(d) == <<Lower(Strip(d.title)), Lower(Strip(d.description)), d.expiry_date>>

(* C13: a document written by the program holds at most one task per dedup *)
(* key (trimmed lower-cased title, trimmed lower-cased description, exact  *)
(* expiry timestamp).  From the first cleanup on, tasks.json is a document *)
(* the program wrote.                                                      *)
C13_NoDuplicatePersisted ==
    (pc # "start" /\ out.op # "startup") =>
        \A i, j \in 1..Len(file) : i # j => DocKey(file[i]) # DocKey(file[j])

(* ============================== C18 ==================================== *)
(* C18: no two tasks in the store hold the same checklist object.          *)
C18_ChecklistOwnedByOneTask ==
    \A i, j \in 1..Len(tasks) : i # j => tasks[i].bref # tasks[j].bref

(* ================= the store functions on their own ==================== *)
(* get_next_id, list.pop, remove_duplicates and save followed by a new     *)
(* TaskManager(), each applied once to a store drawn from a bounded set.   *)
StoreIds == {1, 2, 5}
StoreTitles == {<<"a">>, <<"A", " ">>, <<"b">>}

StoreTask(id, title, expiry) ==
    [Task(id, title, <<"d">>, expiry, "low",
          IF expiry = 2 THEN <<Bullet("x", FALSE)>> ELSE <<>>, 0)
     EXCEPT !.created_date = IF id = 2 THEN 0 ELSE NoAttr]

StoreTasks == {StoreTask(id, title, expiry) :
                  id \in StoreIds, title \in StoreTitles, expiry \in {1, 2}}

(* every task holds a bullets list of its own *)
OwnLists(ts) == [i \in 1..Len(ts) |-> [ts[i] EXCEPT !.bref = i]]

Stores == UNION {[1..n -> StoreTasks] : n \in 0..MaxStore}

Ids(ts) == {ts[i].id : i \in 1..Len(ts)}

FnInit ==
    /\ now = 1
    /\ file = <<>>
    /\ tasks \in {OwnLists(s) : s \in Stores}
    /\ pc = "call"
    /\ out = NoOut
    /\ cycle_now = 0

CallNextId ==
    /\ pc \in {"call", "popped"}
    /\ out' = [op |-> "get_next_id", res |-> get_next_id(tasks),
               popped |-> IF pc = "popped" THEN out.id ELSE 0,
               ids_before |-> IF pc = "popped" THEN out.ids_before ELSE Ids(tasks)]
    /\ pc' = "returned"
    /\ UNCHANGED <<now, file, tasks, cycle_now>>

(* manager.tasks.pop(i) *)
CallPop ==
    /\ pc = "call"
    /\ \E i \in 1..Len(tasks) :
          /\ tasks' = Renumber(RemoveAt(tasks, i))
          /\ out' = [op |-> "pop", res |-> "none", id |-> tasks[i].id,
                     ids_before |-> Ids(tasks)]
    /\ pc' = "popped"
    /\ UNCHANGED <<now, file, cycle_now>>

CallRemoveDuplicates ==
    /\ pc \in {"call", "deduped"}
    /\ tasks' = Renumber(remove_duplicates(tasks))
    /\ out' = [op |-> "remove_duplicates", res |-> "none",
               duplicates_count |-> Len(tasks) - Len(remove_duplicates(tasks)),
               before |-> tasks]
    /\ pc' = IF pc = "call" THEN "deduped" ELSE "returned"
    /\ UNCHANGED <<now, file, cycle_now>>

(* manager.save(), after which the program is started anew *)
CallSave ==
    /\ pc = "call"
    /\ file' = to_dict(tasks, now)
    /\ out' = [op |-> "save", res |-> "none"]
    /\ pc' = "start"
    /\ UNCHANGED <<now, tasks, cycle_now>>

FnNext ==
    \/ CallNextId
    \/ CallPop
    \/ CallRemoveDuplicates
    \/ CallSave
    \/ Startup

FnSpec == FnInit /\ [][FnNext]_vars

(* ============================== C12 ==================================== *)
(* the call of get_next_id that follows the removal of the one task with   *)
(* id 5 from a store whose ids were 1, 2 and 5                             *)
AfterDeleting5 ==
    /\ out.op = "get_next_id" /\ out.popped = 5
    /\ out.ids_before = {1, 2, 5} /\ Ids(tasks) = {1, 2}

(* C12 as stated: get_next_id returns 1 on an empty store, 6 on a store    *)
(* with ids 1, 2, 5, and 5 again once the task with id 5 has been deleted. *)
C12_NextIdAsStated ==
    out.op = "get_next_id" =>
        /\ tasks = <<>> => out.res = 1
        /\ Ids(tasks) = {1, 2, 5} => out.res = 6
        /\ AfterDeleting5 => out.res = 5

(* C12 amended: get_next_id returns 1 on an empty store, 6 on a store with *)
(* ids 1, 2, 5, and 3 (the largest remaining id plus one) once the task    *)
(* with id 5 has been deleted.                                             *)
C12_NextId ==
    out.op = "get_next_id" =>
        /\ tasks = <<>> => out.res = 1
        /\ Ids(tasks) = {1, 2, 5} => out.res = 6
        /\ AfterDeleting5 => out.res = 3

(* C12 witness: get_next_id has been called after the task with id 5 was   *)
(* removed from a store with ids 1, 2, 5                                   *)
C12_Witness == AfterDeleting5 /\ Len(tasks) = 2 /\ out.res = 3

C12_WitnessEmpty == out.op = "get_next_id" /\ tasks = <<>> /\ out.res = 1

C12_WitnessThree == out.op = "get_next_id" /\ Ids(tasks) = {1, 2, 5} /\ out.res = 6

(* ============================== C14 ==================================== *)
(* task b as read back from the document of task a: the saved fields are   *)
(* equal, and so is the created date when a has one                        *)
ReadBack(b, a) ==
    /\ b.id = a.id /\ b.title = a.title /\ b.description = a.description
    /\ b.expiry_date = a.expiry_date /\ b.priority = a.priority
    /\ b.status = a.status /\ b.bullets = a.bullets
    /\ a.created_date # NoAttr => b.created_date = a.created_date

(* C14: decoding the document that save has just written (from_dict of     *)
(* to_dict, before any deduplication) gives a list of the same length with *)
(* the same tasks in the same order.                                       *)
C14_RoundTrip ==
    (pc = "start" /\ out.op = "save") =>
        LET back == from_dict(file, now)
        IN /\ Len(back) = Len(tasks)
           /\ \A j \in 1..Len(tasks) : ReadBack(back[j], tasks[j])

(* ============================== C17 ==================================== *)
(* dedup key of a task, as the specification words it *)
DedupKey(t) == <<Lower(Strip(t.title)), Lower(Strip(t.description)), t.expiry_date>>

(* the tasks of ts, from position i on, that no earlier task shares a key with *)
RECURSIVE FirstOccurrences(_, _)
FirstOccurrences(ts, i) ==
    IF i > Len(ts) THEN <<>>
    ELSE (IF \E j \in 1..(i - 1) : DedupKey(ts[j]) = DedupKey(ts[i])
          THEN <<>> ELSE <<ts[i]>>) \o FirstOccurrences(ts, i + 1)

KeysDistinct(ts) ==
    \A i, j \in 1..Len(ts) : i # j => DedupKey(ts[i]) # DedupKey(ts[j])

(* what C17 asks of one remove_duplicates call *)
C17_DedupStep ==
    (pc \in {"call", "deduped"} /\ out'.op = "remove_duplicates") =>
        /\ Len(tasks') = Len(FirstOccurrences(tasks, 1))
        /\ \A j \in 1..Len(tasks') : SameTask(tasks'[j], FirstOccurrences(tasks, 1)[j])
        /\ KeysDistinct(tasks')
        /\ out'.duplicates_count = Len(tasks) - Len(tasks')
        /\ pc = "deduped" => (out'.duplicates_count = 0 /\ tasks' = tasks)

(* C17: remove_duplicates keeps, for each dedup key, exactly the first     *)
(* task in store order: the result is the order-preserving subsequence of  *)
(* first occurrences, no two remaining tasks share a key, the count is the *)
(* number of tasks removed, and a second run removes nothing.              *)
C17_KeepsFirstOccurrences == [][C17_DedupStep]_vars

(* C17 witness: remove_duplicates was given "a" followed by "A " with the  *)
(* same description and expiry, kept the first and counted one removal     *)
C17_Witness ==
    /\ pc = "deduped" /\ out.op = "remove_duplicates"
    /\ Len(out.before) = 2
    /\ out.before[1].title = <<"a">> /\ out.before[2].title = <<"A", " ">>
    /\ out.duplicates_count = 1
    /\ Len(tasks) = 1 /\ SameTask(tasks[1], out.before[1])

(* C17: a second run has just removed nothing *)
C17_WitnessAgain ==
    /\ pc = "returned" /\ out.op = "remove_duplicates"
    /\ out.duplicates_count = 0 /\ Len(tasks) >= 2

(* ============================== C19 ==================================== *)
(* what C19 asks of a startup on the document just saved *)
C19_RestoreStep ==
    (pc = "start" /\ out.op = "save" /\ KeysDistinct(tasks)) =>
        /\ Len(tasks') = Len(tasks)
        /\ \A j \in 1..Len(tasks) : ReadBack(tasks'[j], tasks[j])

(* C19: when a store whose dedup keys are pairwise distinct is saved, a    *)
(* new TaskManager built from that document holds the same tasks, as many  *)
(* and in the same order, for stores of 0, 1 and several tasks.            *)
C19_StartupRestores == [][C19_RestoreStep]_vars

(* C19 witness: a store of three tasks with distinct keys has been saved   *)
(* and loaded again; the load dropped the six copies from_dict had made    *)
C19_Witness ==
    /\ pc = "cleanup" /\ out.op = "startup"
    /\ Len(tasks) = 3 /\ Len(file) = 3 /\ KeysDistinct(tasks)
    /\ out.duplicates_count = 6

C19_WitnessEmpty == pc = "cleanup" /\ out.op = "startup" /\ tasks = <<>> /\ file = <<>>

C19_WitnessOne ==
    pc = "cleanup" /\ out.op = "startup" /\ Len(tasks) = 1 /\ out.duplicates_count = 0

(* ============================== C15 ==================================== *)
(* what C15 asks of one step that writes the document again without        *)
(* removing a task: the tasks made by add_task in this run keep the        *)
(* created_date the document already shows for them                        *)
C15_CreatedStep ==
    (file' # file /\ Len(tasks') = Len(tasks) /\ Len(file) = Len(tasks)
                  /\ Len(file') = Len(file)) =>
        \A j \in 1..Len(tasks) :
            (/\ tasks[j].created_date = NoAttr
             /\ "created_date" \in DOMAIN file[j]
             /\ file[j].id = tasks[j].id /\ file'[j].id = tasks[j].id) =>
                file'[j].created_date = file[j].created_date

(* C15: the created date of a task added at time t is fixed: every later   *)
(* save of the store, at any later clock value, writes created_date = t    *)
(* for that task.                                                          *)
C15_CreatedDateFixed == [][C15_CreatedStep]_vars

(* ============================== C16 ==================================== *)
(* the tasks a report lists: all of them for view, the matches of some     *)
(* keyword for search                                                      *)
C16_Listed(found) ==
    /\ Len(out.shown) = Len(found)
    /\ \A i \in 1..Len(found) :
          /\ out.shown[i].id = found[i].id
          /\ out.shown[i].title = found[i].title

(* C16: immediately after view or search, the status reported for each     *)
(* listed task is the one the Status Engine rule gives for the current     *)
(* time, expiry and checklist, also when the expiry was crossed since the  *)
(* last recomputation or the status came from storage.                     *)
C16_ReportsRecomputedStatus ==
    (pc = "cleanup" /\ out.op \in {"view", "search"}) =>
        \E kw \in Keywords :
            LET found == IF out.op = "view" THEN tasks
                         ELSE search_matches(tasks, Lower(kw))
            IN /\ C16_Listed(found)
               /\ \A i \in 1..Len(found) :
                     out.shown[i].status = EngineStatus(found[i], now)

(* the same for search alone and against the recomputation the code has    *)
(* (update_status), which sets the checklist rules of C2 and C3 aside      *)
C16_SearchRecomputes ==
    (pc = "cleanup" /\ out.op = "search") =>
        \E kw \in Keywords :
            LET found == search_matches(tasks, Lower(kw))
            IN /\ C16_Listed(found)
               /\ \A i \in 1..Len(found) :
                     out.shown[i].status = StatusOf(found[i], now)

(* ============================== C20 ==================================== *)
Locked == {COMPLETED, EXPIRED}

(* b is task a one step later: a recomputation that locked a locks b, and  *)
(* one that found a expired finds b expired                                *)
C20_Absorbed(a, b) ==
    /\ a.id = b.id /\ a.bullets = b.bullets
    /\ StatusOf(a, now) \in Locked => StatusOf(b, now') \in Locked
    /\ StatusOf(a, now) = EXPIRED => StatusOf(b, now') = EXPIRED

(* the ways the tasks left after a removal sit in the list before it *)
C20_Embeddings ==
    {f \in [1..Len(tasks') -> 1..Len(tasks)] :
        \A i, j \in 1..Len(tasks') : i < j => f[i] < f[j]}

(* what C20 asks of one step: every task still in the store is absorbed;   *)
(* a step that removes tasks keeps the others in their order               *)
C20_AbsorbingStep ==
    IF Len(tasks') >= Len(tasks)
    THEN \A i \in 1..Len(tasks) : C20_Absorbed(tasks[i], tasks'[i])
    ELSE \E f \in C20_Embeddings :
            \A j \in 1..Len(tasks') : C20_Absorbed(tasks[f[j]], tasks'[j])

(* C20: locking is absorbing while the clock only advances: once a status  *)
(* recomputation gives completed or expired for a task, no add, edit,      *)
(* complete-bullet, view, search, delete or cleanup makes a recomputation  *)
(* of that task give not started or in progress again, and an expired task *)
(* stays expired for as long as it is in the store.                        *)
C20_LockingAbsorbing == [][C20_AbsorbingStep]_vars

(* C20 witness: a task with a checklist was recomputed to completed and    *)
(* saved so; the clock then passed its expiry and view has just recomputed *)
(* it to expired                                                           *)
C20_Witness ==
    /\ pc = "cleanup" /\ out.op = "view"
    /\ \E k \in 1..Len(tasks) :
          /\ k <= Len(file) /\ "status" \in DOMAIN file[k]
          /\ file[k].id = tasks[k].id
          /\ file[k].status = COMPLETED
          /\ tasks[k].bullets # <<>>
          /\ tasks[k].status = EXPIRED
          /\ now > tasks[k].expiry_date

(* C20 witness: a task recomputed to expired was recomputed again later,   *)
(* after an edit request for it was refused, and is still expired          *)
C20_WitnessStaysExpired ==
    /\ pc = "cleanup" /\ out.op = "edit" /\ out.res = "locked"
    /\ \E k \in 1..Len(tasks) :
          /\ k <= Len(file) /\ "status" \in DOMAIN file[k]
          /\ file[k].id = tasks[k].id /\ tasks[k].id = out.id
          /\ file[k].status = EXPIRED
          /\ tasks[k].status = EXPIRED
          /\ now > cycle_now

====
